---- MODULE Spec2Model ----
(***************************************************************************)
(* A model of skills/search-web/scripts/search_web.py: one run of main     *)
(* (argument check, changelog short-circuit, key check, mode resolution,   *)
(* simple or deep search) together with the pure helpers it calls.         *)
(*                                                                         *)
(* Text is modelled as a sequence of characters, each character a          *)
(* one-element string; a non-ASCII character is named by its code point    *)
(* ("U+00F3" is o-acute).  Python's None is the empty tuple << >> where    *)
(* the value is otherwise a tuple, and the string "None" elsewhere.        *)
(***************************************************************************)
EXTENDS Integers, Sequences, FiniteSets, TLC

VARIABLES
    query,        \* args.query
    max_results,  \* args.max_results
    lang,         \* args.lang
    mode,         \* args.mode
    resolved,     \* the local `mode` of main once resolved, "" before
    api_key,      \* os.environ.get("OPENROUTER_API_KEY")
    pc,           \* where the run is
    stdout,       \* what print() wrote to the output stream, in order
    stderr,       \* the diagnostic _die (or the interpreter) wrote
    exit_code,    \* the process exit status, -1 while running
    net,          \* the HTTP requests issued so far, in order
    data,         \* the parsed body of the releases GET
    steps,        \* step1, step2, step3 of _deep_search_3x
    q23,          \* q2 and q3 of _deep_search_3x
    inp,          \* the argument of a helper called on its own
    ret           \* what that helper returned

vars == <<query, max_results, lang, mode, resolved, api_key, pc, stdout, stderr,
          exit_code, net, data, steps, q23, inp, ret>>

(***************************************************************************)
(* Characters and strings                                                  *)
(***************************************************************************)
Digits == <<"0", "1", "2", "3", "4", "5", "6", "7", "8", "9">>

UpperCase == <<"A", "B", "C", "D", "E", "F", "G", "H", "I", "J", "K", "L", "M",
               "N", "O", "P", "Q", "R", "S", "T", "U", "V", "W", "X", "Y", "Z",
               "U+00D3", "U+0141", "U+017B", "U+0118", "U+0106", "U+0179">>

LowerCase == <<"a", "b", "c", "d", "e", "f", "g", "h", "i", "j", "k", "l", "m",
               "n", "o", "p", "q", "r", "s", "t", "u", "v", "w", "x", "y", "z",
               "U+00F3", "U+0142", "U+017C", "U+0119", "U+0107", "U+017A">>

IsDigit(c) == \E i \in 1..Len(Digits) : Digits[i] = c

DigitVal(c) == (CHOOSE i \in 1..Len(Digits) : Digits[i] = c) - 1

IsSpace(c) == c \in {" ", "\t", "\n"}

LowerChar(c) ==
    IF \E i \in 1..Len(UpperCase) : UpperCase[i] = c
    THEN LowerCase[CHOOSE i \in 1..Len(UpperCase) : UpperCase[i] = c]
    ELSE c

\* str.lower()
Lower(s) == [i \in 1..Len(s) |-> LowerChar(s[i])]

\* the test `k in s` on strings
Contains(s, k) ==
    \E i \in 0..(Len(s) - Len(k)) : \A j \in 1..Len(k) : s[i + j] = k[j]

\* any(k in s for k in ks)
ContainsAny(s, ks) == \E n \in 1..Len(ks) : Contains(s, ks[n])

StartsWith(s, k) ==
    Len(k) <= Len(s) /\ \A j \in 1..Len(k) : s[j] = k[j]

\* str.strip(): surrounding whitespace removed
Strip(s) ==
    LET keep == {i \in 1..Len(s) : ~IsSpace(s[i])}
    IN  IF keep = {} THEN << >>
        ELSE LET lo == CHOOSE i \in keep : \A j \in keep : i <= j
                 hi == CHOOSE i \in keep : \A j \in keep : j <= i
             IN  SubSeq(s, lo, hi)

\* len([w for w in re.split(r"\s+", q) if w]): the maximal runs of
\* non-whitespace characters
WordCount(s) ==
    Cardinality({i \in 1..Len(s) :
                    ~IsSpace(s[i]) /\ (i = 1 \/ IsSpace(s[i - 1]))})

RECURSIVE Flatten(_)
Flatten(ss) == IF ss = << >> THEN << >> ELSE Head(ss) \o Flatten(Tail(ss))

RECURSIVE JoinWords(_)
\* " ".join(words)
JoinWords(ws) ==
    IF ws = << >> THEN << >>
    ELSE IF Len(ws) = 1 THEN ws[1]
    ELSE ws[1] \o <<" ">> \o JoinWords(Tail(ws))

(***************************************************************************)
(* _extract_codex_cli_range                                                *)
(***************************************************************************)
\* the pattern 0\.(\d{2})(?:\.\d+)? matches at position i
VersionAt(s, i) ==
    /\ i + 3 <= Len(s)
    /\ s[i] = "0"
    /\ s[i + 1] = "."
    /\ IsDigit(s[i + 2])
    /\ IsDigit(s[i + 3])

RECURSIVE DigitsEnd(_, _)
\* the first position at or after i that holds no digit
DigitsEnd(s, i) ==
    IF i <= Len(s) /\ IsDigit(s[i]) THEN DigitsEnd(s, i + 1) ELSE i

\* the position after the match at i: the optional group (?:\.\d+)? is
\* taken when a dot and at least one digit follow the minor
VersionEnd(s, i) ==
    IF i + 5 <= Len(s) /\ s[i + 4] = "." /\ IsDigit(s[i + 5])
    THEN DigitsEnd(s, i + 5)
    ELSE i + 4

RECURSIVE FindMinors(_, _)
\* [int(m.group(1)) for m in re.finditer(..., query)], scanning from i
FindMinors(s, i) ==
    IF i > Len(s) THEN << >>
    ELSE IF VersionAt(s, i)
         THEN <<10 * DigitVal(s[i + 2]) + DigitVal(s[i + 3])>>
                  \o FindMinors(s, VersionEnd(s, i))
         ELSE FindMinors(s, i + 1)

SeqMin(xs) == CHOOSE x \in {xs[i] : i \in 1..Len(xs)} :
                  \A j \in 1..Len(xs) : x <= xs[j]

SeqMax(xs) == CHOOSE x \in {xs[i] : i \in 1..Len(xs)} :
                  \A j \in 1..Len(xs) : xs[j] <= x

\* None is << >>
_extract_codex_cli_range(q) ==
    LET minors == FindMinors(q, 1)
    IN  IF minors = << >> THEN << >>
        ELSE <<SeqMin(minors), SeqMax(minors)>>

(***************************************************************************)
(* _classify_query and _explicit_depth_intent                              *)
(***************************************************************************)
complexity_markers ==
    << <<"p", "o", "r", "U+00F3", "w", "n">>,
       <<"r", "U+00F3", "U+017C", "n", "i", "c">>,
       <<"w", "a", "d", "y">>,
       <<"z", "a", "l", "e", "t", "y">>,
       <<"d", "l", "a", "c", "z", "e", "g", "o">>,
       <<"j", "a", "k", " ", "z", "r", "o", "b", "i", "U+0107">>,
       <<"k", "r", "o", "k", " ", "p", "o", " ", "k", "r", "o", "k", "u">>,
       <<"s", "t", "r", "a", "t", "e", "g", "i">>,
       <<"p", "l", "a", "n">>,
       <<"a", "n", "a", "l", "i", "z">>,
       <<"r", "e", "l", "a", "c", "j">>,
       <<"h", "i", "s", "t", "o", "r", "i">>,
       <<"t", "U+0142", "o">>,
       <<"k", "o", "n", "s", "e", "k", "w", "e", "n", "c">>,
       <<"w", "p", "U+0142", "y", "w">>,
       <<"k", "o", "n", "t", "r", "o", "w", "e", "r", "s">>,
       <<"z", "a", "l", "e", "U+017C", "y">> >>

\* len(words) <= 6 in _classify_query
BanalWordLimit == 6

\* len(words) >= 12 in _classify_query
ComplexWordCount == 12

_classify_query(qry) ==
    LET q == Lower(Strip(qry))
        words == WordCount(q)
    IN  IF words <= BanalWordLimit THEN "banal"
        ELSE IF ContainsAny(q, complexity_markers) THEN "complex"
        ELSE IF words >= ComplexWordCount THEN "complex"
        ELSE "banal"

DeepKeywords ==
    << <<"3", " ", "r", "a", "z", "y">>,
       <<"t", "r", "z", "y", " ", "r", "a", "z", "y">>,
       <<"i", "t", "e", "r", "a", "c">>,
       <<"s", "e", "r", "i", "a", " ", "w", "y", "s", "z", "u", "k", "a">>,
       <<"z", "g", "U+0142", "U+0119", "b", "i", "a">>,
       <<"g", "U+0142", "U+0119", "b", "o", "k">>,
       <<"d", "e", "e", "p">> >>

SimpleKeywords ==
    << <<"p", "r", "o", "s", "t", "e">>,
       <<"s", "z", "y", "b", "k", "o">>,
       <<"j", "e", "d", "n", "o", " ", "w", "y", "s", "z", "u", "k">>,
       <<"j", "e", "d", "n", "o", "r", "a", "z">>,
       <<"b", "a", "s", "i", "c">> >>

_explicit_depth_intent(qry) ==
    LET q == Lower(qry)
    IN  IF ContainsAny(q, DeepKeywords) THEN "deep"
        ELSE IF ContainsAny(q, SimpleKeywords) THEN "simple"
        ELSE "None"

(***************************************************************************)
(* _summarize_bullets_from_markdown and _maybe_codex_cli_changelog_tldr    *)
(***************************************************************************)
\* limit=8 in the call of _summarize_bullets_from_markdown
BulletLimit == 8

RECURSIVE LStripChars(_, _)
\* str.lstrip(chars)
LStripChars(s, cs) ==
    IF s # << >> /\ Head(s) \in cs THEN LStripChars(Tail(s), cs) ELSE s

RECURSIVE BulletScan(_, _, _)
\* the loop over body.splitlines(); a body is the sequence of its lines
BulletScan(lines, bullets, limit) ==
    IF lines = << >> THEN bullets
    ELSE LET s == Strip(Head(lines))
             item == Strip(LStripChars(s, {"-", "*"}))
         IN  IF s # << >> /\ s[1] \in {"-", "*"} /\ item # << >>
             THEN IF Len(bullets) + 1 >= limit
                  THEN Append(bullets, item)
                  ELSE BulletScan(Tail(lines), Append(bullets, item), limit)
             ELSE BulletScan(Tail(lines), bullets, limit)

_summarize_bullets_from_markdown(body, limit) == BulletScan(body, << >>, limit)

\* "rust-v0."
TagPrefix == <<"r", "u", "s", "t", "-", "v", "0", ".">>

\* re.fullmatch(r"rust-v0\.(\d{2})\.0", tag)
TagMatches(tag) ==
    /\ Len(tag) = Len(TagPrefix) + 4
    /\ StartsWith(tag, TagPrefix)
    /\ IsDigit(tag[Len(TagPrefix) + 1])
    /\ IsDigit(tag[Len(TagPrefix) + 2])
    /\ tag[Len(TagPrefix) + 3] = "."
    /\ tag[Len(TagPrefix) + 4] = "0"

\* int(m.group(1))
TagMinor(tag) ==
    10 * DigitVal(tag[Len(TagPrefix) + 1]) + DigitVal(tag[Len(TagPrefix) + 2])

\* f"{minor:02d}"
Fmt02(n) == <<Digits[(n \div 10) + 1], Digits[(n % 10) + 1]>>

\* f"https://github.com/openai/codex/releases/tag/rust-v0.{minor:02d}.0",
\* the host and path shortened to "gh:"
DefaultUrl(minor) == <<"g", "h", ":">> \o TagPrefix \o Fmt02(minor) \o <<".", "0">>

\* s.split("T")[0]
BeforeT(s) ==
    IF \E i \in 1..Len(s) : s[i] = "T"
    THEN SubSeq(s, 1, (CHOOSE i \in 1..Len(s) :
                          s[i] = "T" /\ \A j \in 1..(i - 1) : s[j] # "T") - 1)
    ELSE s

RECURSIVE CollectReleases_FirstWins(_, _, _, _)
\* CollectReleases keeping the first entry of a minor
CollectReleases_FirstWins(items, lo, hi, releases) ==
    IF items = << >> THEN releases
    ELSE LET r == Head(items)
             hit == r.isdict /\ TagMatches(r.tag_name)
                       /\ lo <= TagMinor(r.tag_name) /\ TagMinor(r.tag_name) <= hi
         IN  CollectReleases_FirstWins(Tail(items), lo, hi,
                 IF hit THEN releases @@ (TagMinor(r.tag_name) :> r)
                        ELSE releases)

RECURSIVE CollectReleases(_, _, _, _)
\* the loop filling `releases`: a later entry with the same minor overwrites
CollectReleases(items, lo, hi, releases) ==
    IF items = << >> THEN releases
    ELSE LET r == Head(items)
             hit == r.isdict /\ TagMatches(r.tag_name)
                       /\ lo <= TagMinor(r.tag_name) /\ TagMinor(r.tag_name) <= hi
         IN  CollectReleases(Tail(items), lo, hi,
                 IF hit THEN (TagMinor(r.tag_name) :> r) @@ releases
                        ELSE releases)

RECURSIVE SortedSeq(_)
\* sorted(releases), range(lo, hi + 1) filtered: ascending order of a set
SortedSeq(S) ==
    IF S = {} THEN << >>
    ELSE LET m == CHOOSE x \in S : \A y \in S : x <= y
         IN  <<m>> \o SortedSeq(S \ {m})

ReleaseUrl(r, minor) ==
    IF r.html_url # << >> THEN r.html_url ELSE DefaultUrl(minor)

\* the lines of one release: header, bullets or placeholder, source, blank
ReleaseSection(r, minor) ==
    LET published == IF BeforeT(r.published_at) # << >>
                     THEN BeforeT(r.published_at) ELSE <<"-">>
        bullets == _summarize_bullets_from_markdown(r.body, BulletLimit)
    IN  <<[k |-> "header", minor |-> minor, text |-> published]>>
        \o (IF bullets # << >>
            THEN [i \in 1..Len(bullets) |->
                     [k |-> "bullet", minor |-> minor, text |-> bullets[i]]]
            ELSE <<[k |-> "nobullets", minor |-> minor, text |-> << >>]>>)
        \o <<[k |-> "source", minor |-> minor, text |-> ReleaseUrl(r, minor)],
             [k |-> "blank", minor |-> -1, text |-> << >>]>>

RECURSIVE Sections(_, _)
Sections(releases, minors) ==
    IF minors = << >> THEN << >>
    ELSE ReleaseSection(releases[Head(minors)], Head(minors))
             \o Sections(releases, Tail(minors))

\* the report lines built from `releases` (lines 128-166); a line is a
\* record: its kind, the minor it is about (-1 for none) and its text (for
\* the "no stable release" note, the formatted minors it lists, in order)
ReportLines(releases, lo, hi, lng) ==
    LET present == SortedSeq(DOMAIN releases)
        missing == SortedSeq({m \in lo..hi : m \notin DOMAIN releases})
    IN  <<[k |-> "title", minor |-> -1, text |-> Fmt02(lo) \o Fmt02(hi)],
          [k |-> "blank", minor |-> -1, text |-> << >>]>>
        \o Sections(releases, present)
        \o (IF missing # << >>
            THEN <<[k |-> "missing", minor |-> -1,
                    text |-> [i \in 1..Len(missing) |-> Fmt02(missing[i])]],
                   [k |-> "blank", minor |-> -1, text |-> << >>]>>
            ELSE << >>)
        \o <<[k |-> "sources", minor |-> -1, text |-> << >>],
             [k |-> "link", minor |-> -1, text |-> <<"g", "h", ":">>]>>
        \o [i \in 1..Len(present) |->
               [k |-> "link", minor |-> present[i],
                text |-> ReleaseUrl(releases[present[i]], present[i])]]
        \o (IF lng # "pl"
            THEN <<[k |-> "blank", minor |-> -1, text |-> << >>],
                   [k |-> "caveat", minor |-> -1, text |-> << >>]>>
            ELSE << >>)

\* lines 91-101: the query asks for a Codex CLI changelog
ChangelogTriggered(qry) ==
    LET q == Lower(qry)
        rng == _extract_codex_cli_range(qry)
    IN  /\ Contains(q, <<"c", "o", "d", "e", "x">>)
        /\ Contains(q, <<"c", "l", "i">>)
        /\ rng # << >>
        /\ rng[1] <= rng[2]

\* ChangelogFromData keeping every stable release, in the range or not
ChangelogFromData_AnyMinor(qry, lng, d) ==
    IF d.ty # "list" THEN << >>
    ELSE LET rng == _extract_codex_cli_range(qry)
             releases == CollectReleases(d.items, 0, 99, << >>)
         IN  IF DOMAIN releases = {} THEN << >>
             ELSE ReportLines(releases, rng[1], rng[2], lng)

\* lines 110-166, after the GET returned `d`; None is << >>
ChangelogFromData(qry, lng, d) ==
    IF d.ty # "list" THEN << >>
    ELSE LET rng == _extract_codex_cli_range(qry)
             releases == CollectReleases(d.items, rng[1], rng[2], << >>)
         IN  IF DOMAIN releases = {} THEN << >>
             ELSE ReportLines(releases, rng[1], rng[2], lng)

(***************************************************************************)
(* _extract_first_json_object and _openrouter_web_search_json_plan         *)
(*                                                                         *)
(* A reply text is a sequence of lexemes [t, v]:                           *)
(*   "{" "}"   a brace outside any string literal                          *)
(*   ","       a comma                                                     *)
(*   "p"       prose holding no brace                                      *)
(*   "T" "S" "F"  a complete member "tldr_bullets": ..., "sources": ...,   *)
(*             "followup_queries": ..., its value number v of the table    *)
(*   "N"       a key and its colon, a value to follow                      *)
(*   "Q"       a string literal holding the character "}"                  *)
(***************************************************************************)
Tok(t, v) == [t |-> t, v |-> v]

List(items) == [ty |-> "list", items |-> items]

\* the JSON values a member lexeme can carry: lists, null, a number
BulletValues == << List(<< >>), List(<< <<"b", "1">> >>) >>

Src(url, title) == [isdict |-> TRUE, url |-> url, title |-> title]

NotADict == [isdict |-> FALSE, url |-> << >>, title |-> << >>]

SourceValues ==
    << List(<< >>),
       List(<< Src(<<"a">>, <<"A">>), Src(<<"b">>, << >>) >>),
       List(<< Src(<<" ", "b">>, <<"B">>), NotADict, Src(<<" ">>, <<"E">>),
               Src(<<"c">>, <<"C">>), Src(<<"a">>, <<"Z">>) >>),
       [ty |-> "null", items |-> << >>],
       [ty |-> "num", items |-> << >>] >>

FollowupValues ==
    << List(<< >>),
       List(<< <<"f", "1">> >>),
       List(<< <<"f", "1">>, <<"f", "2">> >>),
       List(<< <<"g", "1">>, <<"g", "2">>, <<"g", "3">> >>),
       [ty |-> "null", items |-> << >>],
       [ty |-> "num", items |-> << >>] >>

KeyOf(t) ==
    CASE t = "T" -> "tldr_bullets"
      [] t = "S" -> "sources"
      [] t = "F" -> "followup_queries"
      [] OTHER -> "other"

ValueOf(tok) ==
    CASE tok.t = "T" -> BulletValues[tok.v]
      [] tok.t = "S" -> SourceValues[tok.v]
      [] tok.t = "F" -> FollowupValues[tok.v]
      [] OTHER -> [ty |-> "dict", items |-> << >>]

\* the lexeme holds "{" ... "}" pairs of its own: a sources list with a
\* {title, url} object in it
HoldsObject(tok) ==
    /\ tok.t = "S"
    /\ \E i \in 1..Len(SourceValues[tok.v].items) : SourceValues[tok.v].items[i].isdict

\* the character "{" occurs in the lexeme
HasOpenBrace(tok) == tok.t = "{" \/ HoldsObject(tok)

\* what the lexeme adds to the scanner's depth once past it
DepthStep(tok) ==
    CASE tok.t = "{" -> 1
      [] tok.t \in {"}", "Q"} -> -1
      [] OTHER -> 0

ParseFailed == [ok |-> FALSE, next |-> 0, val |-> << >>]

RECURSIVE ParseObject(_, _)
RECURSIVE ParseMembers(_, _, _)
\* json.loads on the lexemes from position i on: an object, its members
\* separated by commas; [ok, next, val] with val the dict of its members
ParseObject(toks, i) ==
    IF i + 1 > Len(toks) \/ toks[i].t # "{" THEN ParseFailed
    ELSE IF toks[i + 1].t = "}" THEN [ok |-> TRUE, next |-> i + 2, val |-> << >>]
    ELSE ParseMembers(toks, i + 1, << >>)

ParseMembers(toks, i, acc) ==
    LET member ==
            IF i > Len(toks) THEN ParseFailed
            ELSE IF toks[i].t \in {"T", "S", "F"}
                 THEN [ok |-> TRUE, next |-> i + 1, val |-> ValueOf(toks[i])]
            ELSE IF toks[i].t = "N" /\ i + 1 <= Len(toks) /\ toks[i + 1].t = "Q"
                 THEN [ok |-> TRUE, next |-> i + 2, val |-> [ty |-> "str", items |-> << >>]]
            ELSE IF toks[i].t = "N"
                 THEN LET sub == ParseObject(toks, i + 1)
                      IN  [ok |-> sub.ok, next |-> sub.next,
                           val |-> [ty |-> "dict", items |-> << >>]]
            ELSE ParseFailed
        j == member.next
        acc2 == (KeyOf(toks[i].t) :> member.val) @@ acc
    IN  IF ~member.ok \/ j > Len(toks) THEN ParseFailed
        ELSE IF toks[j].t = "}" THEN [ok |-> TRUE, next |-> j + 1, val |-> acc2]
        ELSE IF toks[j].t = "," THEN ParseMembers(toks, j + 1, acc2)
        ELSE ParseFailed

\* json.loads(chunk) returned, and read the whole chunk
JsonLoads(chunk) ==
    LET r == ParseObject(chunk, 1)
    IN  IF r.ok /\ r.next = Len(chunk) + 1 THEN r ELSE ParseFailed

RECURSIVE ScanFrom(_, _, _, _)
\* the for loop of _extract_first_json_object from position i at `depth`;
\* [found, val]: found is FALSE for None
ScanFrom(text, start, i, depth) ==
    IF i > Len(text) THEN [found |-> FALSE, val |-> << >>]
    ELSE LET d == depth + DepthStep(text[i])
         IN  IF DepthStep(text[i]) < 0 /\ d = 0
             THEN LET r == JsonLoads(SubSeq(text, start, i))
                  IN  IF r.ok
                      THEN [found |-> TRUE, val |-> r.val]
                      ELSE [found |-> FALSE, val |-> << >>]
             ELSE ScanFrom(text, start, i + 1, d)

_extract_first_json_object(text) ==
    IF \A i \in 1..Len(text) : ~HasOpenBrace(text[i])
    THEN [found |-> FALSE, val |-> << >>]
    ELSE LET start == CHOOSE i \in 1..Len(text) :
                          HasOpenBrace(text[i]) /\ \A j \in 1..(i - 1) : ~HasOpenBrace(text[j])
         IN  IF HoldsObject(text[start])
             THEN \* the first "{" opens a source object, which is the chunk
                  [found |-> TRUE, val |-> ("other" :> [ty |-> "str", items |-> << >>])]
             ELSE ScanFrom(text, start, start, 0)

\* obj.setdefault(key, [])
SetDefault(obj, key) ==
    IF key \in DOMAIN obj THEN obj ELSE (key :> List(<< >>)) @@ obj

\* PlanFromContent without the default of followup_queries
PlanFromContent_TwoDefaults(content) ==
    LET got == _extract_first_json_object(content)
        obj == IF got.found THEN got.val ELSE << >>
    IN  SetDefault(SetDefault(obj, "tldr_bullets"), "sources")

\* lines 284-290: the dict returned for the assistant text `content`
PlanFromContent(content) ==
    LET got == _extract_first_json_object(content)
        obj == IF got.found THEN got.val ELSE << >>
    IN  SetDefault(SetDefault(SetDefault(obj, "tldr_bullets"), "sources"),
                   "followup_queries")

(***************************************************************************)
(* _deep_search_3x: follow-up queries, merged sources, payloads            *)
(***************************************************************************)
\* " szczegoly" (line 296)
SuffixDetails == <<" ", "s", "z", "c", "z", "e", "g", "U+00F3", "U+0142", "y">>

\* " kontekst i zrodla" (line 297)
SuffixContext == <<" ", "k", "o", "n", "t", "e", "k", "s", "t", " ", "i", " ",
                   "U+017A", "r", "U+00F3", "d", "U+0142", "a">>

\* step.get(key) or []: null is falsy; the number of the tables is not
GetOrEmpty(step, key) ==
    IF step[key].ty = "null" THEN List(<< >>) ELSE step[key]

\* len(x) and iteration raise TypeError on a number
IsSized(v) == v.ty # "num"

\* FollowupQueries with q3 taken from the first followup too
FollowupQueries_FirstTwice(qry, step1) ==
    LET followups == GetOrEmpty(step1, "followup_queries").items
    IN  <<IF Len(followups) >= 1 THEN followups[1] ELSE qry \o SuffixDetails,
          IF Len(followups) >= 1 THEN followups[1] ELSE qry \o SuffixContext>>

\* lines 295-297: <<q2, q3>>
FollowupQueries(qry, step1) ==
    LET followups == GetOrEmpty(step1, "followup_queries").items
    IN  <<IF Len(followups) >= 1 THEN followups[1] ELSE qry \o SuffixDetails,
          IF Len(followups) >= 2 THEN followups[2] ELSE qry \o SuffixContext>>

RECURSIVE MergeScan_NoSeen(_, _)
\* MergeScan without the seen_urls test
MergeScan_NoSeen(entries, sources) ==
    IF entries = << >> THEN sources
    ELSE LET e == Head(entries)
             url == Strip(e.url)
             title == Strip(e.title)
         IN  IF ~e.isdict \/ url = << >>
             THEN MergeScan_NoSeen(Tail(entries), sources)
             ELSE MergeScan_NoSeen(Tail(entries),
                      Append(sources,
                          [title |-> IF title # << >> THEN title ELSE url,
                           url |-> url]))

RECURSIVE MergeScan(_, _)
\* the body of the two nested loops (lines 305-313) over the entries of
\* step1, step2, step3 in order; seen_urls is the set of urls of `sources`
MergeScan(entries, sources) ==
    IF entries = << >> THEN sources
    ELSE LET e == Head(entries)
             url == Strip(e.url)
             title == Strip(e.title)
             seen_urls == {sources[i].url : i \in 1..Len(sources)}
         IN  IF ~e.isdict \/ url = << >> \/ url \in seen_urls
             THEN MergeScan(Tail(entries), sources)
             ELSE MergeScan(Tail(entries),
                      Append(sources,
                          [title |-> IF title # << >> THEN title ELSE url,
                           url |-> url]))

MergeSources(step1, step2, step3) ==
    MergeScan(GetOrEmpty(step1, "sources").items
                  \o GetOrEmpty(step2, "sources").items
                  \o GetOrEmpty(step3, "sources").items, << >>)

\* sources[:12] on line 315
SourceCap == 12

\* numbered_sources: the entries [i+1] title - url of sources[:12]
NumberedSources(sources) ==
    [i \in 1..(IF Len(sources) < SourceCap THEN Len(sources) ELSE SourceCap) |->
        [n |-> i, title |-> sources[i].title, url |-> sources[i].url]]

WebPlugin(mr) == <<[id |-> "web", max_results |-> mr]>>

UserMessage(content) == <<[role |-> "user", content |-> content]>>

\* the payload of _openrouter_web_search (lines 245-249)
SearchPayload(qry, lng, mr) ==
    [model |-> "args.model", plugins |-> WebPlugin(mr),
     messages |-> UserMessage([prompt |-> "search", query |-> qry, lang |-> lng])]

\* the payload of _openrouter_web_search_json_plan (lines 273-277)
PlanPayload(qry, lng, mr) ==
    [model |-> "args.model", plugins |-> WebPlugin(mr),
     messages |-> UserMessage([prompt |-> "plan", query |-> qry, lang |-> lng])]

\* the payload of the synthesis call (lines 316-331): no plugins key
SynthesisPayload(qry, lng, st) ==
    [model |-> "args.model",
     messages |-> UserMessage(
         [prompt |-> "synthesis", query |-> qry, lang |-> lng, iterations |-> st,
          sources |-> NumberedSources(MergeSources(st[1], st[2], st[3]))])]

\* _request: the POST it sends
PostRequest(key, payload) ==
    [method |-> "POST", url |-> "OPENROUTER_URL", auth |-> key.val, payload |-> payload]

\* _http_get_json as called on line 103: the GET it sends
GetRequest ==
    [method |-> "GET", url |-> "GITHUB_RELEASES_API", auth |-> << >>, payload |-> << >>]

\* str.rstrip()
RStrip(s) ==
    LET keep == {i \in 1..Len(s) : ~IsSpace(s[i])}
    IN  IF keep = {} THEN << >>
        ELSE SubSeq(s, 1, CHOOSE i \in keep : \A j \in keep : j <= i)

(***************************************************************************)
(* The inputs of a run                                                     *)
(***************************************************************************)
W_porownaj == <<"p", "o", "r", "U+00F3", "w", "n", "a", "j">>
W_wady == <<"w", "a", "d", "y">>
W_zalety == <<"z", "a", "l", "e", "t", "y">>
W_i == <<"i">>
W_Codex == <<"C", "o", "d", "e", "x">>
W_CLI == <<"C", "L", "I">>
W_info == <<"i", "n", "f", "o">>
W_deep == <<"D", "e", "e", "p">>
W_proste == <<"p", "r", "o", "s", "t", "e">>
W_basic == <<"b", "a", "s", "i", "c">>

\* n filler words holding no keyword
Pad(n) == [i \in 1..n |-> W_info]

\* the command lines' --query values
Queries ==
    { \* "porownaj wady i zalety X i Y", the example of the documentation
      JoinWords(<<W_porownaj, W_wady, W_i, W_zalety, <<"X">>, W_i, <<"Y">>>>),
      JoinWords(<<W_wady>> \o Pad(BanalWordLimit - 1)),
      JoinWords(Pad(1)),
      JoinWords(Pad(BanalWordLimit + 1)),
      JoinWords(Pad(ComplexWordCount - 1)),
      JoinWords(Pad(ComplexWordCount)),
      JoinWords(<<W_deep>> \o Pad(BanalWordLimit)),
      JoinWords(<<W_info, <<"3">>, <<"r", "a", "z", "y">>, W_info>>),
      JoinWords(<<W_proste, W_wady>> \o Pad(BanalWordLimit)),
      JoinWords(<<W_basic, W_deep, W_info>>),
      JoinWords(<<W_Codex, W_CLI, <<"0", ".", "8", "0", "-", "0", ".", "8", "3">>>>),
      JoinWords(<<W_porownaj, W_wady, W_i, W_zalety, W_Codex, W_CLI,
                  <<"0", ".", "8", "0">>, W_i, <<"0", ".", "8", "3">>>>),
      JoinWords(<<W_Codex, W_CLI, W_info>>),
      JoinWords(<<W_Codex, <<"0", ".", "8", "0">>>>),
      JoinWords(<<W_deep, W_Codex, W_CLI, <<"0", ".", "8", "1", ".", "2">>>>) }

\* the bounds of --max-results (line 369)
MinResults == 1

MaxResults == 20

\* --max-results values: the default, the bounds and their neighbours
MaxResultsArgs ==
    {-1, MinResults - 1, MinResults, 5, MaxResults, MaxResults + 1}

Langs == {"pl", "en"}

\* choices=["auto", "simple", "deep"]
Modes == {"auto", "simple", "deep"}

\* --mode values: the choices and one that is none of them
ModeArgs == Modes \cup {"fast"}

\* the environment: no variable, an empty one, a key
ApiKeys ==
    { [set |-> FALSE, val |-> << >>],
      [set |-> TRUE, val |-> << >>],
      [set |-> TRUE, val |-> <<"k">>] }

Tag(minor) == TagPrefix \o Fmt02(minor) \o <<".", "0">>

Release(tag, url, published, body) ==
    [isdict |-> TRUE, tag_name |-> tag, html_url |-> url,
     published_at |-> published, body |-> body]

NotARelease ==
    [isdict |-> FALSE, tag_name |-> << >>, html_url |-> << >>,
     published_at |-> << >>, body |-> << >>]

Date1 == <<"2", "0", "2", "5", "-", "0", "1", "-", "0", "9", "T", "1", "0", ":", "0", "0", "Z">>

\* a release body of more bullet lines than the limit keeps
BodyLong ==
    << <<"#", " ", "h">>, <<" ", "*", "*", " ", "b", " ">>, <<"-">>, << >>, <<"t">> >>
    \o [i \in 1..BulletLimit |-> <<"-", " ", Digits[i]>>]

\* bodies the releases GET can carry
ReleaseDatas ==
    { [ty |-> "dict", items |-> << >>],
      List(<< >>),
      List(<< Release(Tag(80), <<"a">>, Date1, BodyLong),
              Release(Tag(83), << >>, << >>, << >>) >>),
      List(<< Release(Tag(85), <<"a">>, Date1, << >>) >>),
      List(<< Release(Tag(81), <<"a">>, Date1, << >>), NotARelease,
              Release(Tag(81), <<"b">>, << >>, <<<<"-", "x">>>>),
              Release(Tag(82) \o <<"-", "a">>, <<"c">>, Date1, << >>) >>) }

\* assistant texts of a structured pass
PlanReplies ==
    { <<Tok("{", 0), Tok("T", 2), Tok(",", 0), Tok("S", 2), Tok(",", 0),
        Tok("F", 3), Tok("}", 0)>>,
      <<Tok("p", 0), Tok("{", 0), Tok("S", 3), Tok(",", 0), Tok("F", 4),
        Tok("}", 0), Tok("p", 0)>>,
      <<Tok("p", 0)>>,
      <<Tok("{", 0), Tok("F", 2), Tok("}", 0), Tok("}", 0)>>,
      <<Tok("{", 0), Tok("F", 5), Tok(",", 0), Tok("S", 4), Tok("}", 0)>>,
      <<Tok("{", 0), Tok("F", 6), Tok("}", 0)>>,
      <<Tok("{", 0), Tok("S", 5), Tok("}", 0)>> }

\* assistant texts of a simple search or of the synthesis
Answers == { <<"o", "k">>, <<"o", "k", " ", "\n">> }

GetErrors == {"HTTP error", "HTTP request failed", "Non-JSON response"}

PostErrors ==
    {"OpenRouter HTTP error", "OpenRouter request failed",
     "OpenRouter returned non-JSON response",
     "Unexpected OpenRouter response schema"}

(***************************************************************************)
(* main                                                                    *)
(***************************************************************************)
Init ==
    /\ query \in Queries
    /\ max_results \in MaxResultsArgs
    /\ lang \in Langs
    /\ mode \in ModeArgs
    /\ resolved = ""
    /\ api_key \in ApiKeys
    /\ pc = "start"
    /\ stdout = << >>
    /\ stderr = ""
    /\ exit_code = -1
    /\ net = << >>
    /\ data = [ty |-> "none", items |-> << >>]
    /\ steps = << >>
    /\ q23 = << >>
    /\ inp = << >>
    /\ ret = << >>

\* _die: the message on the error stream, SystemExit(2)
_die(message) ==
    /\ stderr' = message
    /\ exit_code' = 2
    /\ pc' = "done"

\* an exception nothing catches: the traceback, exit status 1
Uncaught ==
    /\ stderr' = "Traceback"
    /\ exit_code' = 1
    /\ pc' = "done"

\* return from main: exit status 0
Return ==
    /\ exit_code' = 0
    /\ pc' = "done"

\* print(text)
print(kind, text) == stdout' = Append(stdout, [kind |-> kind, text |-> text])

\* ParseArgs with the lower bound off by one: 0 passes
ParseArgs_ZeroPasses ==
    /\ pc = "start"
    /\ IF mode \notin Modes
       THEN stderr' = "usage: invalid choice" /\ exit_code' = 2 /\ pc' = "done"
       ELSE IF max_results < MinResults - 1 \/ max_results > MaxResults
       THEN _die("--max-results must be between 1 and 20")
       ELSE pc' = "changelog" /\ UNCHANGED <<stderr, exit_code>>
    /\ UNCHANGED <<query, max_results, lang, mode, resolved, api_key, stdout, net, data,
                   steps, q23, inp, ret>>

\* lines 367-370: parse_args leaves with status 2 on a --mode that is no
\* choice; then the range check
ParseArgs ==
    /\ pc = "start"
    /\ IF mode \notin Modes
       THEN stderr' = "usage: invalid choice" /\ exit_code' = 2 /\ pc' = "done"
       ELSE IF max_results < MinResults \/ max_results > MaxResults
       THEN _die("--max-results must be between 1 and 20")
       ELSE pc' = "changelog" /\ UNCHANGED <<stderr, exit_code>>
    /\ UNCHANGED <<query, max_results, lang, mode, resolved, api_key, stdout, net, data,
                   steps, q23, inp, ret>>

\* line 372 into _maybe_codex_cli_changelog_tldr, up to the GET (91-109)
ChangelogLookup ==
    /\ pc = "changelog"
    /\ IF ChangelogTriggered(query)
       THEN net' = Append(net, GetRequest) /\ pc' = "get"
       ELSE pc' = "key" /\ UNCHANGED net
    /\ UNCHANGED <<query, max_results, lang, mode, resolved, api_key, stdout, stderr,
                   exit_code, data, steps, q23, inp, ret>>

\* _http_get_json fails (lines 51-55, 59-60)
GetFails ==
    /\ pc = "get"
    /\ \E message \in GetErrors : _die(message)
    /\ UNCHANGED <<query, max_results, lang, mode, resolved, api_key, stdout, net, data,
                   steps, q23, inp, ret>>

\* _http_get_json returns parsed JSON; lines 110-166, then 373-375
GetReturns ==
    /\ pc = "get"
    /\ \E d \in ReleaseDatas :
          /\ data' = d
          /\ LET codex_tldr == ChangelogFromData(query, lang, d)
             IN  IF codex_tldr # << >>
                 THEN print("changelog", codex_tldr) /\ Return
                 ELSE pc' = "key" /\ UNCHANGED <<stdout, exit_code>>
    /\ UNCHANGED <<query, max_results, lang, mode, resolved, api_key, stderr, net, steps,
                   q23, inp, ret>>

\* ResolvedMode without the complexity check: auto falls back to simple
ResolvedMode_NoMenu ==
    IF mode # "auto" THEN mode
    ELSE IF _explicit_depth_intent(query) # "None" THEN _explicit_depth_intent(query)
    ELSE "simple"

\* lines 381-394: "menu" when the user is asked to choose
ResolvedMode ==
    IF mode # "auto" THEN mode
    ELSE IF _explicit_depth_intent(query) # "None" THEN _explicit_depth_intent(query)
    ELSE IF _classify_query(query) = "complex" THEN "menu"
    ELSE "simple"

\* ResolveMode testing `api_key is None` in place of `not api_key`
ResolveMode_KeyNoneOnly ==
    /\ pc = "key"
    /\ IF ~api_key.set
       THEN /\ _die("Missing OPENROUTER_API_KEY in environment.")
            /\ UNCHANGED <<resolved, stdout, net>>
       ELSE CASE ResolvedMode = "menu" ->
                 /\ print("menu", << >>)
                 /\ Return
                 /\ UNCHANGED <<resolved, stderr, net>>
              [] ResolvedMode = "deep" ->
                 /\ resolved' = "deep"
                 /\ net' = Append(net, PostRequest(api_key,
                                           PlanPayload(query, lang, max_results)))
                 /\ pc' = "step1"
                 /\ UNCHANGED <<stdout, stderr, exit_code>>
              [] OTHER ->
                 /\ resolved' = "simple"
                 /\ net' = Append(net, PostRequest(api_key,
                                           SearchPayload(query, lang, max_results)))
                 /\ pc' = "simple"
                 /\ UNCHANGED <<stdout, stderr, exit_code>>
    /\ UNCHANGED <<query, max_results, lang, mode, api_key, data, steps, q23, inp, ret>>

\* lines 377-401, up to the first POST
ResolveMode ==
    /\ pc = "key"
    /\ IF ~api_key.set \/ api_key.val = << >>
       THEN /\ _die("Missing OPENROUTER_API_KEY in environment.")
            /\ UNCHANGED <<resolved, stdout, net>>
       ELSE CASE ResolvedMode = "menu" ->
                 /\ print("menu", << >>)
                 /\ Return
                 /\ UNCHANGED <<resolved, stderr, net>>
              [] ResolvedMode = "deep" ->
                 /\ resolved' = "deep"
                 /\ net' = Append(net, PostRequest(api_key,
                                           PlanPayload(query, lang, max_results)))
                 /\ pc' = "step1"
                 /\ UNCHANGED <<stdout, stderr, exit_code>>
              [] OTHER ->
                 /\ resolved' = "simple"
                 /\ net' = Append(net, PostRequest(api_key,
                                           SearchPayload(query, lang, max_results)))
                 /\ pc' = "simple"
                 /\ UNCHANGED <<stdout, stderr, exit_code>>
    /\ UNCHANGED <<query, max_results, lang, mode, api_key, data, steps, q23, inp, ret>>

\* _request fails, or the reply has no choices[0].message.content
\* (lines 35-43, 253-254, 281-282, 335-336)
PostFails ==
    /\ pc \in {"simple", "step1", "step2", "step3", "synthesis"}
    /\ \E message \in PostErrors : _die(message)
    /\ UNCHANGED <<query, max_results, lang, mode, resolved, api_key, stdout, net, data,
                   steps, q23, inp, ret>>

\* _openrouter_web_search returns; line 401
SimpleReturns ==
    /\ pc = "simple"
    /\ \E content \in Answers : print("answer", RStrip(content) \o <<"\n">>)
    /\ Return
    /\ UNCHANGED <<query, max_results, lang, mode, resolved, api_key, stderr, net, data,
                   steps, q23, inp, ret>>

\* Step1Returns printing the first iteration as progress
Step1Returns_Progress ==
    /\ pc = "step1"
    /\ \E content \in PlanReplies :
          LET step1 == PlanFromContent(content)
          IN  /\ steps' = <<step1>>
              /\ print("progress", << >>)
              /\ IF ~IsSized(step1["followup_queries"])
                 THEN Uncaught /\ UNCHANGED <<q23, net>>
                 ELSE /\ q23' = FollowupQueries(query, step1)
                      /\ net' = Append(net, PostRequest(api_key,
                                    PlanPayload(FollowupQueries(query, step1)[1],
                                                lang, max_results)))
                      /\ pc' = "step2"
                      /\ UNCHANGED <<stderr, exit_code>>
    /\ UNCHANGED <<query, max_results, lang, mode, resolved, api_key, data, inp, ret>>

\* line 294 returns; lines 295-299 up to the POST of step2
Step1Returns ==
    /\ pc = "step1"
    /\ \E content \in PlanReplies :
          LET step1 == PlanFromContent(content)
          IN  /\ steps' = <<step1>>
              /\ IF ~IsSized(step1["followup_queries"])
                 THEN Uncaught /\ UNCHANGED <<q23, net>>
                 ELSE /\ q23' = FollowupQueries(query, step1)
                      /\ net' = Append(net, PostRequest(api_key,
                                    PlanPayload(FollowupQueries(query, step1)[1],
                                                lang, max_results)))
                      /\ pc' = "step2"
                      /\ UNCHANGED <<stderr, exit_code>>
    /\ UNCHANGED <<query, max_results, lang, mode, resolved, api_key, stdout, data, inp, ret>>

\* line 299 returns; line 300 up to the POST of step3
Step2Returns ==
    /\ pc = "step2"
    /\ \E content \in PlanReplies :
          steps' = Append(steps, PlanFromContent(content))
    /\ net' = Append(net, PostRequest(api_key, PlanPayload(q23[2], lang, max_results)))
    /\ pc' = "step3"
    /\ UNCHANGED <<query, max_results, lang, mode, resolved, api_key, stdout, stderr,
                   exit_code, data, q23, inp, ret>>

\* line 300 returns; lines 302-332 up to the POST of the synthesis
Step3Returns ==
    /\ pc = "step3"
    /\ \E content \in PlanReplies :
          LET st == Append(steps, PlanFromContent(content))
          IN  /\ steps' = st
              /\ IF \E i \in 1..3 : ~IsSized(st[i]["sources"])
                 THEN Uncaught /\ UNCHANGED net
                 ELSE /\ net' = Append(net, PostRequest(api_key,
                                    SynthesisPayload(query, lang, st)))
                      /\ pc' = "synthesis"
                      /\ UNCHANGED <<stderr, exit_code>>
    /\ UNCHANGED <<query, max_results, lang, mode, resolved, api_key, stdout, data, q23,
                   inp, ret>>

\* line 332 returns; lines 333-334, then 397-398
SynthesisReturns ==
    /\ pc = "synthesis"
    /\ \E content \in Answers : print("answer", RStrip(content) \o <<"\n">>)
    /\ Return
    /\ UNCHANGED <<query, max_results, lang, mode, resolved, api_key, stderr, net, data,
                   steps, q23, inp, ret>>

Next ==
    \/ ParseArgs
    \/ ChangelogLookup
    \/ GetFails
    \/ GetReturns
    \/ ResolveMode
    \/ PostFails
    \/ SimpleReturns
    \/ Step1Returns
    \/ Step2Returns
    \/ Step3Returns
    \/ SynthesisReturns

Spec == Init /\ [][Next]_vars

(***************************************************************************)
(* The helpers called on their own: the argument in inp, the result in     *)
(* ret, the rest of the state as before a run                              *)
(***************************************************************************)
NoRun ==
    /\ query = << >>
    /\ max_results = 5
    /\ lang = "pl"
    /\ mode = "auto"
    /\ resolved = ""
    /\ api_key = [set |-> FALSE, val |-> << >>]
    /\ stdout = << >>
    /\ stderr = ""
    /\ exit_code = -1
    /\ net = << >>
    /\ data = [ty |-> "none", items |-> << >>]
    /\ steps = << >>
    /\ q23 = << >>

UnchangedRun ==
    UNCHANGED <<query, max_results, lang, mode, resolved, api_key, stdout, stderr,
                exit_code, net, data, steps, q23, inp>>

\* the sequences over S of length at most n
SeqsUpTo(S, n) == UNION {[1..k -> S] : k \in 0..n}

\* ---- _extract_codex_cli_range ----
\* the longest query, in pieces
MaxPieces == 3

RangePieces ==
    { <<"0", ".", "8", "0">>, <<"0", ".", "8", "7">>, <<"8", "7">>, <<"-">>,
      <<" ", "d", "o", " ">>, <<".", "1">>, <<"0">>, <<".">>, <<"x">>, <<"9">> }

\* the examples of the documentation
RangeExamples ==
    { <<"0", ".", "8", "0", "-", "0", ".", "8", "7", " ", "c", "l", "i", " ", "c", "o", "d", "e", "x">>,
      <<"c", "o", "d", "e", "x", " ", "c", "l", "i", " ", "0", ".", "8", "7">>,
      <<"n", "o", " ", "n", "u", "m", "b", "e", "r", "s", " ", "h", "e", "r", "e">> }

RangeInputs ==
    {Flatten(ps) : ps \in SeqsUpTo(RangePieces, MaxPieces)} \cup RangeExamples

InitRange == inp \in RangeInputs /\ ret = << >> /\ pc = "call" /\ NoRun

CallExtractRange ==
    /\ pc = "call"
    /\ ret' = _extract_codex_cli_range(inp)
    /\ pc' = "return"
    /\ UnchangedRun

SpecRange == InitRange /\ [][CallExtractRange]_vars

\* ---- _openrouter_web_search_json_plan, the reply well-formed ----
\* the longest assistant text, in lexemes
MaxTextLen == 4

PlanAlphabet ==
    {Tok("{", 0), Tok("}", 0), Tok(",", 0), Tok("p", 0), Tok("N", 0), Tok("Q", 0),
     Tok("T", 2), Tok("S", 2), Tok("F", 3)}

PlanTexts == SeqsUpTo(PlanAlphabet, MaxTextLen) \cup PlanReplies

InitPlan == inp \in PlanTexts /\ ret = << >> /\ pc = "call" /\ NoRun

\* lines 284-290 on the content `inp`
CallPlan ==
    /\ pc = "call"
    /\ ret' = PlanFromContent(inp)
    /\ pc' = "return"
    /\ UnchangedRun

SpecPlan == InitPlan /\ [][CallPlan]_vars

\* ---- the source merge of _deep_search_3x ----
\* the most sources one iteration returns
MaxPerIter == 5

Url(n) == <<"u">> \o Fmt02(n)

\* `len` sources of urls Url(start), Url(start + 1), ...: as they are, or
\* among entries to skip, the urls padded with blanks, every second title
\* blank, the first url once more at the end
SourceList(start, len, shape) ==
    LET plain == [k \in 1..len |-> Src(Url(start + k - 1), <<"t">> \o Fmt02(start))]
    IN  IF shape = "plain" THEN plain
        ELSE <<NotADict, Src(<< >>, <<"E">>), Src(<<" ">>, <<"E">>)>>
             \o [k \in 1..len |->
                    Src(<<" ">> \o plain[k].url \o <<"\t">>,
                        IF k % 2 = 0 THEN <<" ">> ELSE <<" ", "n", " ">>)]
             \o (IF len > 0 THEN <<Src(Url(start), <<"d">>)>> ELSE << >>)

SourceLists ==
    {SourceList(start, len, shape) :
        start \in {0, 4, 9}, len \in 0..MaxPerIter, shape \in {"plain", "noisy"}}

PlanWithSources(sources) ==
    [tldr_bullets |-> List(<< >>), sources |-> List(sources),
     followup_queries |-> List(<< >>)]

InitMerge ==
    /\ inp \in {<<PlanWithSources(a), PlanWithSources(b), PlanWithSources(c)>> :
                   a \in SourceLists, b \in SourceLists, c \in SourceLists}
    /\ ret = << >>
    /\ pc = "call"
    /\ NoRun

\* lines 302-315 on step1, step2, step3 = inp
CallMerge ==
    /\ pc = "call"
    /\ ret' = NumberedSources(MergeSources(inp[1], inp[2], inp[3]))
    /\ pc' = "return"
    /\ UnchangedRun

SpecMerge == InitMerge /\ [][CallMerge]_vars

\* ---- _maybe_codex_cli_changelog_tldr, the GET successful ----
\* the longest releases list
MaxReleases == 3

ChangelogQueries ==
    { <<"c", "o", "d", "e", "x", " ", "c", "l", "i", " ", "0", ".", "8", "0", "-", "0", ".", "8", "3">>,
      <<"C", "o", "d", "e", "x", " ", "C", "L", "I", " ", "0", ".", "8", "2">>,
      <<"c", "l", "i", " ", "0", ".", "8", "4", " ", "c", "o", "d", "e", "x", " ", "0", ".", "8", "1", ".", "5">> }

ReleaseEntries ==
    {Release(tag, << >>, << >>, << >>) :
        tag \in {Tag(80), Tag(81), Tag(83), Tag(84), Tag(79),
                 Tag(82) \o <<"-", "a">>, TagPrefix \o <<"8", "2", ".", "1">>, << >>}}
    \cup {Release(tag, <<"a">>, Date1, <<<<"-", " ", "x">>>>) :
             tag \in {Tag(80), Tag(81), Tag(83)}}
    \cup {NotARelease}

InitChangelog ==
    /\ inp \in {[query |-> q, lang |-> l, data |-> List(items)] :
                   q \in ChangelogQueries, l \in Langs,
                   items \in SeqsUpTo(ReleaseEntries, MaxReleases)}
    /\ ret = << >>
    /\ pc = "call"
    /\ NoRun

\* lines 91-166 with the GET returning inp.data
CallChangelog ==
    /\ pc = "call"
    /\ ret' = IF ChangelogTriggered(inp.query)
              THEN ChangelogFromData(inp.query, inp.lang, inp.data)
              ELSE << >>
    /\ pc' = "return"
    /\ UnchangedRun

SpecChangelog == InitChangelog /\ [][CallChangelog]_vars

(***************************************************************************)
(* Properties of a run (specification Spec)                                *)
(***************************************************************************)
Posts == SelectSeq(net, LAMBDA r : r.method = "POST")

NoKey == ~api_key.set \/ api_key.val = << >>

RangeMessage == "--max-results must be between 1 and 20"

\* the query is one the menu is meant for: no depth keyword, complex
Ambiguous ==
    /\ mode = "auto"
    /\ _explicit_depth_intent(query) = "None"
    /\ _classify_query(query) = "complex"

MenuPrinted ==
    /\ Len(stdout) = 1
    /\ stdout[1].kind = "menu"
    /\ exit_code = 0

ChangelogPrinted ==
    /\ Len(stdout) = 1
    /\ stdout[1].kind = "changelog"

\* C1 as stated: every finished run with --mode auto, no depth keyword and a
\* query classified complex printed the menu, exited 0 and sent no POST.
C1_EveryComplexRunPrintsMenu ==
    (pc = "done" /\ Ambiguous) => (MenuPrinted /\ Posts = << >>)

\* the changelog short-circuit neither answered nor failed the run
ChangelogStoodAside ==
    \/ ~ChangelogTriggered(query)
    \/ (data.ty # "none" /\ ChangelogFromData(query, lang, data) = << >>)

\* C1 amended: a run with --mode auto, no depth keyword and a query
\* classified complex never sends a POST; and when --max-results is in
\* [1,20], the API key is set and non-empty, and the changelog short-circuit
\* neither answers nor fails the run, it prints the menu and exits 0.
C1_ComplexRunPrintsMenu ==
    /\ Ambiguous => Posts = << >>
    /\ ( /\ pc = "done"
         /\ Ambiguous
         /\ max_results \in MinResults..MaxResults
         /\ ~NoKey
         /\ ChangelogStoodAside ) => MenuPrinted

C1_Witness ==
    /\ pc = "done"
    /\ Ambiguous
    /\ MenuPrinted
    /\ query = JoinWords(<<W_porownaj, W_wady, W_i, W_zalety, <<"X">>, W_i, <<"Y">>>>)
    /\ net = << >>

\* step.get("followup_queries") or [] as the claim reads it
FollowupsOf(step) ==
    IF step["followup_queries"].ty = "list" THEN step["followup_queries"].items
    ELSE << >>

PromptOf(r) == r.payload.messages[1].content

\* _deep_search_3x ran to its end and main returned
DeepRunSucceeded ==
    /\ pc = "done"
    /\ exit_code = 0
    /\ Len(steps) = 3

\* C2: a deep run that completes sent exactly four POSTs: the structured
\* pass on the query, on query 2, on query 3, then the synthesis; the first
\* three carry the web plugin capped at --max-results, the fourth has no
\* plugins key; query 2 and 3 come from iteration 1's first and second
\* followup (or the fallback suffix); and no POST leaves before the reply
\* to the one before it is in.
C2_DeepRunFourCalls ==
    /\ Len(Posts) <= Len(steps) + 1
    /\ DeepRunSucceeded =>
          /\ Len(Posts) = 4
          /\ \A n \in 1..3 :
                /\ PromptOf(Posts[n]).prompt = "plan"
                /\ "plugins" \in DOMAIN Posts[n].payload
                /\ Posts[n].payload.plugins = <<[id |-> "web", max_results |-> max_results]>>
          /\ PromptOf(Posts[1]).query = query
          /\ PromptOf(Posts[2]).query =
                 IF Len(FollowupsOf(steps[1])) >= 1 THEN FollowupsOf(steps[1])[1]
                 ELSE query \o SuffixDetails
          /\ PromptOf(Posts[3]).query =
                 IF Len(FollowupsOf(steps[1])) >= 2 THEN FollowupsOf(steps[1])[2]
                 ELSE query \o SuffixContext
          /\ PromptOf(Posts[4]).prompt = "synthesis"
          /\ PromptOf(Posts[4]).query = query
          /\ PromptOf(Posts[4]).iterations = steps
          /\ "plugins" \notin DOMAIN Posts[4].payload

C2_Witness ==
    /\ DeepRunSucceeded
    /\ Len(FollowupsOf(steps[1])) = 1
    /\ Len(FollowupsOf(steps[2])) = 3
    /\ PromptOf(Posts[2]).query = <<"f", "1">>
    /\ PromptOf(Posts[3]).query = query \o SuffixContext

\* the releases GET has returned valid JSON
GetReturned == data.ty # "none"

\* C3 as stated: once the trigger matched and the releases GET returned,
\* whatever valid JSON it carried, the run sends no POST.
C3_TriggeredRunNeverPosts ==
    (ChangelogTriggered(query) /\ GetReturned) => Posts = << >>

\* the listing is a list holding a release tagged rust-v0.NN.0, NN in range
HasStableInRange ==
    /\ data.ty = "list"
    /\ \E i \in 1..Len(data.items) :
          /\ data.items[i].isdict
          /\ \E m \in _extract_codex_cli_range(query)[1].._extract_codex_cli_range(query)[2] :
                data.items[i].tag_name = Tag(m)

\* C3 amended: once the trigger matched and the releases GET returned a
\* JSON list holding at least one release tagged rust-v0.NN.0 with NN in
\* the range, the run prints the report, exits 0 and sends no POST; for any
\* other valid JSON no report is printed (the run goes on to the key check
\* and an ordinary search).
C3_ChangelogAnswersWhenReleaseFound ==
    (ChangelogTriggered(query) /\ GetReturned) =>
        IF HasStableInRange
        THEN pc = "done" /\ exit_code = 0 /\ ChangelogPrinted /\ Posts = << >>
        ELSE \A i \in 1..Len(stdout) : stdout[i].kind # "changelog"

C3_Witness ==
    /\ ChangelogTriggered(query)
    /\ HasStableInRange
    /\ ChangelogPrinted
    /\ ~NoKey
    /\ net = <<GetRequest>>

\* C4: without a key no POST is ever sent and the only request is the
\* releases GET; such a run ends with exit code 2, or with exit code 0 when
\* the changelog report was printed; and a printed report means exit 0.
C4_NoKeyNoPost ==
    NoKey =>
        /\ Posts = << >>
        /\ Len(net) <= 1
        /\ pc = "done" => (exit_code = 2 \/ (exit_code = 0 /\ ChangelogPrinted))
        /\ (pc = "done" /\ ChangelogPrinted) => exit_code = 0
        /\ (pc = "done" /\ ~ChangelogPrinted) => (exit_code = 2 /\ stdout = << >>)

C4_Witness ==
    /\ api_key = [set |-> TRUE, val |-> << >>]
    /\ pc = "done"
    /\ exit_code = 2
    /\ stderr = "Missing OPENROUTER_API_KEY in environment."
    /\ net = <<GetRequest>>

\* C5: a --max-results outside [1,20] ends the run with exit code 2 at the
\* range check, no request sent and nothing printed; a value inside [1,20]
\* is never stopped by the range check.
C5_MaxResultsRange ==
    /\ (max_results < 1 \/ max_results > 20) =>
          /\ pc \in {"start", "done"}
          /\ net = << >>
          /\ stdout = << >>
          /\ pc = "done" => exit_code = 2
          /\ (pc = "done" /\ mode \in Modes) => stderr = RangeMessage
    /\ (1 <= max_results /\ max_results <= 20) => stderr # RangeMessage

C5_Witness ==
    /\ max_results = 21
    /\ mode = "auto"
    /\ pc = "done"
    /\ exit_code = 2
    /\ ChangelogTriggered(query)
    /\ net = << >>

\* C10: output is written at most once, only when the run is over with exit
\* code 0 (so no request is pending or to come); a run that ended otherwise
\* has written nothing.
C10_OutputAllOrNothing ==
    /\ Len(stdout) <= 1
    /\ stdout # << >> => (pc = "done" /\ exit_code = 0)
    /\ exit_code \in {1, 2} => stdout = << >>

C10_Witness ==
    /\ pc = "done"
    /\ exit_code = 2
    /\ stderr = "Unexpected OpenRouter response schema"
    /\ Len(steps) = 2
    /\ Len(Posts) = 3
    /\ stdout = << >>

(***************************************************************************)
(* Properties of the source merge (specification SpecMerge)                *)
(***************************************************************************)
\* the entries of the three iterations, in scanning order
AllEntries ==
    inp[1]["sources"].items \o inp[2]["sources"].items \o inp[3]["sources"].items

\* the entry is a dict with a url that is not blank
Usable(e) == e.isdict /\ Strip(e.url) # << >>

\* the positions of `all` holding the first occurrence of a url
FirstOccurrences(all) ==
    {i \in 1..Len(all) :
        /\ Usable(all[i])
        /\ \A j \in 1..(i - 1) :
              Usable(all[j]) => Strip(all[j].url) # Strip(all[i].url)}

\* C6: the numbered source list holds no url twice, no empty url and at most
\* 12 entries; entry n is the n-th first occurrence of a url scanning
\* iteration 1, 2, 3 in order, with that occurrence's title (its url when
\* the title is blank).
C6_MergedSources ==
    pc = "return" =>
        LET all == AllEntries
            first == SortedSeq(FirstOccurrences(all))
        IN  /\ Len(ret) <= 12
            /\ Len(ret) = IF Len(first) < 12 THEN Len(first) ELSE 12
            /\ \A n \in 1..Len(ret) : ret[n].url # << >>
            /\ \A n, m \in 1..Len(ret) : ret[n].url = ret[m].url => n = m
            /\ \A n \in 1..Len(ret) :
                  LET e == all[first[n]]
                  IN  /\ ret[n].n = n
                      /\ ret[n].url = Strip(e.url)
                      /\ ret[n].title = IF Strip(e.title) # << >> THEN Strip(e.title)
                                        ELSE Strip(e.url)

\* more than 12 urls, one of them met again in a later iteration
C6_Witness ==
    /\ pc = "return"
    /\ Len(ret) = 12
    /\ LET all == AllEntries
           first == FirstOccurrences(all)
       IN  /\ Cardinality(first) > 12
           /\ \E i \in 1..Len(all) :
                 /\ Usable(all[i])
                 /\ i \notin first
                 /\ i > Len(inp[1]["sources"].items)

(***************************************************************************)
(* Properties of the structured plan (specification SpecPlan)              *)
(***************************************************************************)
PlanKeys == {"tldr_bullets", "sources", "followup_queries"}

\* the positions of the text where the character "{" occurs
OpenPositions == {i \in 1..Len(inp) : HasOpenBrace(inp[i])}

FirstOpen == CHOOSE i \in OpenPositions : \A j \in OpenPositions : i <= j

\* "{" minus "}" characters outside of lexemes that balance their own,
\* from the first "{" up to position j
BraceDepth(j) ==
    Cardinality({k \in FirstOpen..j : inp[k].t = "{"})
        - Cardinality({k \in FirstOpen..j : inp[k].t \in {"}", "Q"}})

\* the positions at which the depth is back to 0
ClosePositions == {j \in FirstOpen..Len(inp) : BraceDepth(j) = 0}

FirstClose == CHOOSE j \in ClosePositions : \A k \in ClosePositions : j <= k

\* what the claim says the scanner yields: the dict of the span from the
\* first "{" to the first return to depth 0 when that span is valid JSON,
\* else nothing
SpanObject ==
    IF OpenPositions = {} THEN << >>
    ELSE IF HoldsObject(inp[FirstOpen])
         THEN ("other" :> [ty |-> "str", items |-> << >>])
    ELSE IF ClosePositions = {} THEN << >>
    ELSE JsonLoads(SubSeq(inp, FirstOpen, FirstClose)).val

\* C7: whatever the assistant text, the plan returns a dict holding the
\* three keys: those of the object in the first balanced brace span with
\* their values, the others as empty lists (all three when there is no
\* span or it is not valid JSON); the run goes on.
C7_PlanAlwaysHasThreeKeys ==
    pc = "return" =>
        /\ PlanKeys \subseteq DOMAIN ret
        /\ DOMAIN ret = PlanKeys \cup DOMAIN SpanObject
        /\ \A key \in DOMAIN ret :
              ret[key] = IF key \in DOMAIN SpanObject THEN SpanObject[key]
                         ELSE List(<< >>)
        /\ exit_code = -1

\* a valid object that lacks two of the fields, prose before it
C7_Witness ==
    /\ pc = "return"
    /\ inp = <<Tok("p", 0), Tok("{", 0), Tok("T", 2), Tok("}", 0)>>
    /\ ret["tldr_bullets"] = BulletValues[2]
    /\ ret["sources"] = List(<< >>)
    /\ ret["followup_queries"] = List(<< >>)

(***************************************************************************)
(* Properties of the changelog report (specification SpecChangelog)        *)
(***************************************************************************)
Lo == _extract_codex_cli_range(inp.query)[1]

Hi == _extract_codex_cli_range(inp.query)[2]

LinesOfKind(kind) == SelectSeq(ret, LAMBDA l : l.k = kind)

\* the minors with a release section
Reported == {LinesOfKind("header")[i].minor : i \in 1..Len(LinesOfKind("header"))}

\* the formatted minors of the "no stable release" note, in order
MissingNote ==
    IF LinesOfKind("missing") = << >> THEN << >> ELSE LinesOfKind("missing")[1].text

TwoDigits(text) == 10 * DigitVal(text[1]) + DigitVal(text[2])

NotedMissing == {TwoDigits(MissingNote[i]) : i \in 1..Len(MissingNote)}

\* the positions of the fetched entries tagged rust-v0.<m>.0
Tagged(m) ==
    {i \in 1..Len(inp.data.items) :
        inp.data.items[i].isdict /\ inp.data.items[i].tag_name = Tag(m)}

LastTagged(m) == CHOOSE i \in Tagged(m) : \A j \in Tagged(m) : j <= i

PositionOf(kind, m) ==
    CHOOSE i \in 1..Len(ret) : ret[i].k = kind /\ ret[i].minor = m

\* C8: in a report every minor of the range has a release section or is in
\* the trailing note, never both; sections and noted minors ascend; the
\* note follows the sections; a section reports the last fetched entry of
\* its tag.
C8_ReportedOrMissing ==
    (pc = "return" /\ ret # << >>) =>
        /\ \A m \in Lo..Hi : (m \in Reported) # (m \in NotedMissing)
        /\ Reported \cup NotedMissing \subseteq Lo..Hi
        /\ Reported = {m \in Lo..Hi : Tagged(m) # {}}
        /\ Len(LinesOfKind("missing")) <= 1
        /\ \A i, j \in 1..Len(MissingNote) :
              i < j => TwoDigits(MissingNote[i]) < TwoDigits(MissingNote[j])
        /\ \A i, j \in 1..Len(LinesOfKind("header")) :
              i < j => LinesOfKind("header")[i].minor < LinesOfKind("header")[j].minor
        /\ \A i, j \in 1..Len(ret) :
              (ret[i].k = "missing" /\ ret[j].k \in {"header", "bullet", "nobullets", "source"})
                  => j < i
        /\ \A m \in Reported :
              LET r == inp.data.items[LastTagged(m)]
              IN  /\ Len(SelectSeq(ret, LAMBDA l : l.k = "source" /\ l.minor = m)) = 1
                  /\ ret[PositionOf("source", m)].text =
                         IF r.html_url # << >> THEN r.html_url ELSE DefaultUrl(m)
                  /\ PositionOf("header", m) < PositionOf("source", m)

\* range (80,83), only 80 and 83 upstream, 80 fetched twice
C8_Witness ==
    /\ pc = "return"
    /\ ret # << >>
    /\ Lo = 80 /\ Hi = 83
    /\ Reported = {80, 83}
    /\ MissingNote = <<<<"8", "1">>, <<"8", "2">>>>
    /\ Cardinality(Tagged(80)) = 2
    /\ inp.data.items[LastTagged(80)].html_url = << >>

(***************************************************************************)
(* Properties of the range extraction (specification SpecRange)            *)
(***************************************************************************)
\* C9: the three documented forms of a range each yield (80, 87), a single
\* version yields itself twice, a query without a version yields nothing,
\* and a pair returned has min <= max.
C9_DocumentedRangeForms ==
    pc = "return" =>
        /\ inp = <<"0", ".", "8", "0", "-", "0", ".", "8", "7">> => ret = <<80, 87>>
        /\ inp = <<"0", ".", "8", "0", "-", "8", "7">> => ret = <<80, 87>>
        /\ inp = <<"0", ".", "8", "0", " ", "d", "o", " ", "0", ".", "8", "7">> => ret = <<80, 87>>
        /\ inp = <<"0", ".", "8", "7">> => ret = <<87, 87>>
        /\ inp = <<"0", ".", "8", "0", "-", "0", ".", "8", "7", " ", "c", "l", "i", " ", "c", "o", "d", "e", "x">> => ret = <<80, 87>>
        /\ inp = <<"c", "o", "d", "e", "x", " ", "c", "l", "i", " ", "0", ".", "8", "7">> => ret = <<87, 87>>
        /\ inp = <<"n", "o", " ", "n", "u", "m", "b", "e", "r", "s", " ", "h", "e", "r", "e">> => ret = << >>
        /\ ret # << >> => ret[1] <= ret[2]

====
